---- MODULE Spec2Model ----
(***************************************************************************)
(* Model of src-tauri/src/commands/ai/agent_settings.rs: the Value tree,   *)
(* the dot-path accessor (get_nested_value / set_nested_value), the        *)
(* JSON <-> TOML bridge (toml_to_json / json_to_toml) and the two commands *)
(* get_agent_settings / set_agent_settings working on one settings file.   *)
(***************************************************************************)
EXTENDS Integers, Sequences, FiniteSets, TLC

VARIABLES
    json,        \* accessor/bridge: the Value tree handed to the function under study
    key,         \* accessor: the dot-path string, a sequence of characters
    value,       \* accessor: the value handed to set_nested_value
    out,         \* accessor/bridge: the tree after the call
    phase,       \* accessor/bridge: "input" before the call, "set"/"bridged" after it
    settings_path, \* commands: the file name, a sequence of characters
    model_key,   \* commands: dot-path of the model field
    preview_key, \* commands: Option<dot-path> of the preview field
    reasoning_key, \* commands: Option<dot-path> of the reasoning field
    file,        \* commands: the contents of the settings file
    file0,       \* commands: the contents of the file before any call (history)
    pc,          \* commands: per call, its position
    args,        \* commands: per call, the operation and the supplied values
    loaded,      \* commands: per call, the file contents it loaded (history)
    local,       \* commands: per call, its private Value tree
    ret,         \* commands: per call, its result
    hist         \* commands: the order of the loads and writes (history)

vars == <<json, key, value, out, phase, settings_path, model_key, preview_key,
          reasoning_key, file, file0, pc, args, loaded, local, ret, hist>>

accVars == <<json, key, value, out, phase>>
cmdVars == <<settings_path, model_key, preview_key, reasoning_key, file, file0,
             pc, args, loaded, local, ret, hist>>

-----------------------------------------------------------------------------
(* Bounds of the model *)

MaxNodes == 3       \* nodes of an input Value tree
MaxArrayLen == 1    \* elements of an Array in an input tree
MaxSegments == 2    \* segments of a dot-path string
IntBits == 3        \* width the 64-bit integers are scaled down to

-----------------------------------------------------------------------------
(* Option<T> *)

None == [some |-> FALSE]
Some(x) == [some |-> TRUE, v |-> x]

-----------------------------------------------------------------------------
(* serde_json::Value *)

Null == [t |-> "Null"]
Bool(b) == [t |-> "Bool", b |-> b]
Number(n) == [t |-> "Number", n |-> n]
String(s) == [t |-> "String", s |-> s]
Array(a) == [t |-> "Array", a |-> a]
Object(o) == [t |-> "Object", o |-> o]

\* serde_json::Map::new()
EmptyMap == [k \in {} |-> Null]

\* Value::is_object
is_object(v) == v.t = "Object"

\* the outcome of a failed unwrap()
Panic == [t |-> "PANIC"]

\* Value::get(&str): only an Object is indexed by a string
ValueGet(v, part) ==
    IF is_object(v) /\ part \in DOMAIN v.o THEN Some(v.o[part]) ELSE None

\* Map::insert
MapInsert(o, k, x) == [j \in (DOMAIN o) \cup {k} |-> IF j = k THEN x ELSE o[j]]

-----------------------------------------------------------------------------
(* key.split('.') *)

RECURSIVE SplitFrom(_, _, _, _)
SplitFrom(s, i, cur, acc) ==
    IF i > Len(s) THEN Append(acc, cur)
    ELSE IF s[i] = "." THEN SplitFrom(s, i + 1, "", Append(acc, cur))
    ELSE SplitFrom(s, i + 1, cur \o s[i], acc)

split(s) == SplitFrom(s, 1, "", <<>>)

-----------------------------------------------------------------------------
(* get_nested_value *)

RECURSIVE GetFrom(_, _, _)
GetFrom(current, parts, i) ==
    IF i > Len(parts) THEN Some(current)
    ELSE LET next == ValueGet(current, parts[i])
         IN  IF next.some THEN GetFrom(next.v, parts, i + 1) ELSE None

\* a get that indexes an Array by a decimal segment
RECURSIVE GetFromIndexing(_, _, _)
GetFromIndexing(current, parts, i) ==
    IF i > Len(parts) THEN Some(current)
    ELSE LET next == IF current.t = "Array" /\ parts[i] = "0" /\ Len(current.a) > 0
                     THEN Some(current.a[1])
                     ELSE ValueGet(current, parts[i])
         IN  IF next.some THEN GetFromIndexing(next.v, parts, i + 1) ELSE None

get_nested_value_indexing(root, k) == GetFromIndexing(root, split(k), 1)

get_nested_value(root, k) == GetFrom(root, split(k), 1)

-----------------------------------------------------------------------------
(* set_nested_value *)

\* a final step that rebuilds the parent with the one key
SetLastFresh(current, part, x) == Object(MapInsert(EmptyMap, part, x))

\* a final step without the coercion of a non-Object parent
SetLastNoCoerce(current, part, x) ==
    IF is_object(current) THEN Object(MapInsert(current.o, part, x)) ELSE current

\* the final step: coerce the parent, insert the last segment
SetLast(current, part, x) ==
    LET cur1 == IF ~is_object(current) THEN Object(EmptyMap) ELSE current
    IN  IF is_object(cur1) THEN Object(MapInsert(cur1.o, part, x)) ELSE cur1

\* the loop over parts[..len-1], from segment i on
RECURSIVE SetFrom(_, _, _, _)
SetFrom(current, parts, i, x) ==
    IF i >= Len(parts) THEN SetLast(current, parts[i], x)
    ELSE LET cur1 == IF ~is_object(current) THEN Object(EmptyMap) ELSE current
         IN  IF ~is_object(cur1) THEN Panic
             ELSE LET obj == IF parts[i] \notin DOMAIN cur1.o
                             THEN MapInsert(cur1.o, parts[i], Object(EmptyMap))
                             ELSE cur1.o
                  IN  IF parts[i] \notin DOMAIN obj THEN Panic
                      ELSE LET child == SetFrom(obj[parts[i]], parts, i + 1, x)
                           IN  IF child = Panic THEN Panic
                               ELSE Object(MapInsert(obj, parts[i], child))

\* a loop without the coercion of a non-Object node: its unwrap() fails
RECURSIVE SetFromNoCoerce(_, _, _, _)
SetFromNoCoerce(current, parts, i, x) ==
    IF i >= Len(parts) THEN SetLast(current, parts[i], x)
    ELSE IF ~is_object(current) THEN Panic
         ELSE LET obj == IF parts[i] \notin DOMAIN current.o
                         THEN MapInsert(current.o, parts[i], Object(EmptyMap))
                         ELSE current.o
                  child == SetFromNoCoerce(obj[parts[i]], parts, i + 1, x)
              IN  IF child = Panic THEN Panic
                  ELSE Object(MapInsert(obj, parts[i], child))

set_nested_value_no_coerce(root, k, x) == SetFromNoCoerce(root, split(k), 1, x)

set_nested_value(root, k, x) ==
    LET parts == split(k)
    IN  IF Len(parts) = 0 THEN root ELSE SetFrom(root, parts, 1, x)

-----------------------------------------------------------------------------
(* serde_json::Number: PosInt(u64), NegInt(i64) or Float(f64); the integer    *)
(* widths are scaled down to IntBits bits, a float is written as its decimal *)
(* rendering                                                                 *)

I64_MAX == 2 ^ (IntBits - 1) - 1
I64_MIN == 0 - 2 ^ (IntBits - 1)
U64_MAX == 2 ^ IntBits - 1

PosInt(u) == [k |-> "PosInt", u |-> u]
NegInt(i) == [k |-> "NegInt", i |-> i]
Float(f) == [k |-> "Float", f |-> f]

\* f64::is_finite, as Number::from_f64 tests it
is_finite(f) == f \notin {"nan", "inf", "-inf"}

\* an integer as f64
IntAsF64(i) == ToString(i) \o ".0"

\* Number::as_i64
as_i64(n) ==
    IF n.k = "PosInt" THEN (IF n.u <= I64_MAX THEN Some(n.u) ELSE None)
    ELSE IF n.k = "NegInt" THEN Some(n.i)
    ELSE None

\* Number::as_f64
as_f64(n) ==
    IF n.k = "PosInt" THEN Some(IntAsF64(n.u))
    ELSE IF n.k = "NegInt" THEN Some(IntAsF64(n.i))
    ELSE Some(n.f)

\* Number::from(i64)
NumberFromI64(i) == IF i < 0 THEN NegInt(i) ELSE PosInt(i)

\* Number::from_f64
from_f64(f) == IF is_finite(f) THEN Some(Float(f)) ELSE None

\* Number::to_string
NumberToString(n) ==
    IF n.k = "PosInt" THEN ToString(n.u)
    ELSE IF n.k = "NegInt" THEN ToString(n.i)
    ELSE n.f

-----------------------------------------------------------------------------
(* toml::Value *)

TomlString(s) == [t |-> "TomlString", s |-> s]
TomlInteger(i) == [t |-> "TomlInteger", i |-> i]
TomlFloat(f) == [t |-> "TomlFloat", f |-> f]
TomlBoolean(b) == [t |-> "TomlBoolean", b |-> b]
TomlDatetime(dt) == [t |-> "TomlDatetime", dt |-> dt]
TomlArray(a) == [t |-> "TomlArray", a |-> a]
TomlTable(o) == [t |-> "TomlTable", o |-> o]

\* Datetime::to_string: the date and the time joined by "T"
DatetimeToString(dt) == dt.date \o "T" \o dt.time

-----------------------------------------------------------------------------
(* toml_to_json *)

RECURSIVE toml_to_json(_)
toml_to_json(toml) ==
    CASE toml.t = "TomlString" -> String(toml.s)
      [] toml.t = "TomlInteger" -> Number(NumberFromI64(toml.i))
      [] toml.t = "TomlFloat" ->
            LET n == from_f64(toml.f) IN IF n.some THEN Number(n.v) ELSE Null
      [] toml.t = "TomlBoolean" -> Bool(toml.b)
      [] toml.t = "TomlDatetime" -> String(DatetimeToString(toml.dt))
      [] toml.t = "TomlArray" ->
            Array([i \in 1..Len(toml.a) |-> toml_to_json(toml.a[i])])
      [] toml.t = "TomlTable" ->
            Object([j \in DOMAIN toml.o |-> toml_to_json(toml.o[j])])

-----------------------------------------------------------------------------
(* json_to_toml *)

\* a conversion that drops the Null members of an Object
RECURSIVE json_to_toml_dropping(_)
json_to_toml_dropping(v) ==
    CASE v.t = "Null" -> TomlString("")
      [] v.t = "Bool" -> TomlBoolean(v.b)
      [] v.t = "Number" ->
            IF as_i64(v.n).some THEN TomlInteger(as_i64(v.n).v)
            ELSE IF as_f64(v.n).some THEN TomlFloat(as_f64(v.n).v)
            ELSE TomlString(NumberToString(v.n))
      [] v.t = "String" -> TomlString(v.s)
      [] v.t = "Array" ->
            TomlArray([i \in 1..Len(v.a) |-> json_to_toml_dropping(v.a[i])])
      [] v.t = "Object" ->
            TomlTable([j \in {h \in DOMAIN v.o : v.o[h] # Null} |->
                          json_to_toml_dropping(v.o[j])])

RECURSIVE json_to_toml(_)
json_to_toml(v) ==
    CASE v.t = "Null" -> TomlString("")
      [] v.t = "Bool" -> TomlBoolean(v.b)
      [] v.t = "Number" ->
            IF as_i64(v.n).some THEN TomlInteger(as_i64(v.n).v)
            ELSE IF as_f64(v.n).some THEN TomlFloat(as_f64(v.n).v)
            ELSE TomlString(NumberToString(v.n))
      [] v.t = "String" -> TomlString(v.s)
      [] v.t = "Array" -> TomlArray([i \in 1..Len(v.a) |-> json_to_toml(v.a[i])])
      [] v.t = "Object" -> TomlTable([j \in DOMAIN v.o |-> json_to_toml(v.o[j])])

-----------------------------------------------------------------------------
(* The inputs: Value trees of at most MaxNodes nodes, dot-path strings of at *)
(* most MaxSegments segments                                                 *)

ObjKeys == {"a", "0"}

\* the segments a dot-path string is written with; the empty one gives the
\* strings "", ".", "a." and so on
SegmentChars == {<<"a">>, <<"0">>, <<>>}

RECURSIVE JoinDots(_)
JoinDots(segs) ==
    IF Len(segs) = 1 THEN segs[1]
    ELSE segs[1] \o <<".">> \o JoinDots(Tail(segs))

KeyStrings ==
    {JoinDots(segs) : segs \in UNION {[1..n -> SegmentChars] : n \in 1..MaxSegments}}

RECURSIVE TreesOfSize(_, _), MapsOver(_, _, _), SeqsOver(_, _, _)
TreesOfSize(L, n) ==
    IF n <= 0 THEN {}
    ELSE IF n = 1 THEN L \cup {Object(EmptyMap), Array(<<>>)}
    ELSE {Object(o) : o \in UNION {MapsOver(L, K, n - 1) : K \in (SUBSET ObjKeys) \ {{}}}}
         \cup {Array(a) : a \in UNION {SeqsOver(L, len, n - 1) : len \in 1..MaxArrayLen}}
MapsOver(L, K, m) ==
    IF K = {} THEN (IF m = 0 THEN {EmptyMap} ELSE {})
    ELSE LET k == CHOOSE j \in K : TRUE
         IN  UNION {{MapInsert(rest, k, c) :
                        c \in TreesOfSize(L, i), rest \in MapsOver(L, K \ {k}, m - i)} :
                    i \in 1..m}
SeqsOver(L, len, m) ==
    IF len = 0 THEN (IF m = 0 THEN {<<>>} ELSE {})
    ELSE UNION {{<<c>> \o rest :
                    c \in TreesOfSize(L, i), rest \in SeqsOver(L, len - 1, m - i)} :
                i \in 1..m}

Trees(L) == UNION {TreesOfSize(L, n) : n \in 1..MaxNodes}

AccLeaves == {Null, String("s")}
AccTrees == Trees(AccLeaves)
AccValues == {String("m"), Bool(TRUE), Null}

BridgeLeaves == {Null, Bool(TRUE), String("s"), String(""), Number(PosInt(1)),
                 Number(NegInt(I64_MIN)), Number(PosInt(I64_MAX)),
                 Number(PosInt(U64_MAX)), Number(Float("1.5"))}
BridgeTrees == Trees(BridgeLeaves)

-----------------------------------------------------------------------------
(* The accessor specification: one set_nested_value call on an arbitrary     *)
(* tree, path and value                                                      *)

Idle == "idle"

CmdIdle ==
    /\ settings_path = <<>>
    /\ model_key = <<>>
    /\ preview_key = None
    /\ reasoning_key = None
    /\ file = Idle
    /\ file0 = Idle
    /\ pc = Idle
    /\ args = Idle
    /\ loaded = Idle
    /\ local = Idle
    /\ ret = Idle
    /\ hist = <<>>

InitAccessor ==
    /\ json \in AccTrees
    /\ key = <<>>
    /\ value = Null
    /\ out = json
    /\ phase = "input"
    /\ CmdIdle

SetNested ==
    /\ phase = "input"
    /\ \E k \in KeyStrings, x \in AccValues :
          /\ key' = k
          /\ value' = x
          /\ out' = set_nested_value(json, k, x)
    /\ phase' = "set"
    /\ UNCHANGED <<json, cmdVars>>

GetNested ==
    /\ phase = "input"
    /\ \E k \in KeyStrings :
          /\ key' = k
          /\ out' = get_nested_value(json, k)
    /\ phase' = "got"
    /\ UNCHANGED <<json, value, cmdVars>>

NextAccessor == SetNested \/ GetNested

SpecAccessor == InitAccessor /\ [][NextAccessor]_vars

-----------------------------------------------------------------------------
(* The bridge specification: one Value -> TOML -> Value conversion            *)

InitBridge ==
    /\ json \in BridgeTrees
    /\ key = <<>>
    /\ value = Null
    /\ out = json
    /\ phase = "input"
    /\ CmdIdle

Bridge ==
    /\ phase = "input"
    /\ out' = toml_to_json(json_to_toml(json))
    /\ phase' = "bridged"
    /\ UNCHANGED <<json, key, value, cmdVars>>

NextBridge == Bridge

SpecBridge == InitBridge /\ [][NextBridge]_vars

-----------------------------------------------------------------------------
(* The settings file. Its contents are "absent", text that does not parse,   *)
(* or the text of a document; the text of a document is kept as the document *)
(* the format's parser reads from it. The home directory is taken to resolve *)
(* and the file system calls to succeed.                                     *)

Absent == [kind |-> "absent"]
Malformed == [kind |-> "malformed"]
JsonText(v) == [kind |-> "json", doc |-> v]
TomlText(t) == [kind |-> "toml", doc |-> t]

Ok(x) == [ok |-> TRUE, v |-> x]
Err(e) == [ok |-> FALSE, e |-> e]

\* str::ends_with
EndsWith(s, suffix) ==
    /\ Len(s) >= Len(suffix)
    /\ SubSeq(s, Len(s) - Len(suffix) + 1, Len(s)) = suffix

is_toml_file(path) == EndsWith(path, <<".", "t", "o", "m", "l">>)

\* full_path.exists()
exists(content) == content # Absent

\* toml::from_str
toml_from_str(content) ==
    IF content.kind = "toml" THEN Ok(content.doc) ELSE Err("TOML")

\* serde_json::from_str
json_from_str(content) ==
    IF content.kind = "json" THEN Ok(content.doc) ELSE Err("JSON")

\* toml::to_string_pretty: the root of a TOML document is a table
toml_to_string_pretty(t) ==
    IF t.t = "TomlTable" THEN Ok(TomlText(t)) ELSE Err("TOML")

\* serde_json::to_string_pretty
json_to_string_pretty(v) == Ok(JsonText(v))

\* Value::as_str, Value::as_bool
as_str(v) == IF v.t = "String" THEN Some(v.s) ELSE None
as_bool(v) == IF v.t = "Bool" THEN Some(v.b) ELSE None

\* Option::and_then
AndThenGet(root, k) == IF k.some THEN get_nested_value(root, k.v) ELSE None
AndThenStr(o) == IF o.some THEN as_str(o.v) ELSE None
AndThenBool(o) == IF o.some THEN as_bool(o.v) ELSE None

AgentSettings(m, p, r) == [model |-> m, preview_enabled |-> p, reasoning_effort |-> r]

-----------------------------------------------------------------------------
(* get_agent_settings *)

\* a read that takes any scalar for the model name
get_agent_settings_untyped(content, path, mk, pk, rk) ==
    IF ~exists(content) THEN Ok(AgentSettings(None, None, None))
    ELSE LET parsed == IF is_toml_file(path)
                       THEN LET t == toml_from_str(content)
                            IN  IF t.ok THEN Ok(toml_to_json(t.v))
                                ELSE Err("Failed to parse TOML")
                       ELSE LET j == json_from_str(content)
                            IN  IF j.ok THEN j ELSE Err("Failed to parse JSON")
         IN  IF ~parsed.ok THEN parsed
             ELSE LET m == get_nested_value(parsed.v, mk)
                  IN  Ok(AgentSettings(
                         IF m.some /\ m.v.t \in {"String", "Bool"}
                         THEN Some(IF m.v.t = "String" THEN m.v.s ELSE "true")
                         ELSE None,
                         AndThenBool(AndThenGet(parsed.v, pk)),
                         AndThenStr(AndThenGet(parsed.v, rk))))

\* a read that gives up on a document it cannot parse
get_agent_settings_lenient(content, path, mk, pk, rk) ==
    IF ~exists(content) \/ content.kind = "malformed"
    THEN Ok(AgentSettings(None, None, None))
    ELSE LET json0 == IF is_toml_file(path) THEN toml_to_json(content.doc)
                      ELSE content.doc
         IN  Ok(AgentSettings(AndThenStr(get_nested_value(json0, mk)),
                              AndThenBool(AndThenGet(json0, pk)),
                              AndThenStr(AndThenGet(json0, rk))))

get_agent_settings(content, path, mk, pk, rk) ==
    IF ~exists(content) THEN Ok(AgentSettings(None, None, None))
    ELSE LET parsed == IF is_toml_file(path)
                       THEN LET t == toml_from_str(content)
                            IN  IF t.ok THEN Ok(toml_to_json(t.v))
                                ELSE Err("Failed to parse TOML")
                       ELSE LET j == json_from_str(content)
                            IN  IF j.ok THEN j ELSE Err("Failed to parse JSON")
         IN  IF ~parsed.ok THEN parsed
             ELSE Ok(AgentSettings(AndThenStr(get_nested_value(parsed.v, mk)),
                                   AndThenBool(AndThenGet(parsed.v, pk)),
                                   AndThenStr(AndThenGet(parsed.v, rk))))

-----------------------------------------------------------------------------
(* set_agent_settings *)

\* "Read existing settings or create new object"
LoadDocument(content, path) ==
    IF exists(content)
    THEN IF is_toml_file(path)
         THEN LET t == toml_from_str(content)
              IN  toml_to_json(IF t.ok THEN t.v ELSE TomlTable(EmptyMap))
         ELSE LET j == json_from_str(content)
              IN  IF j.ok THEN j.v ELSE Object(EmptyMap)
    ELSE Object(EmptyMap)

\* the three updates, in the order of the code
UpdateModel(doc, mk, a) ==
    IF a.model.some THEN set_nested_value(doc, mk, String(a.model.v)) ELSE doc
UpdatePreview(doc, pk, a) ==
    IF pk.some /\ a.preview_enabled.some
    THEN set_nested_value(doc, pk.v, Bool(a.preview_enabled.v)) ELSE doc
UpdateReasoning(doc, rk, a) ==
    IF rk.some /\ a.reasoning_effort.some
    THEN set_nested_value(doc, rk.v, String(a.reasoning_effort.v)) ELSE doc

\* updates that stop after the model
ApplySettingsModelOnly(doc, mk, pk, rk, a) == UpdateModel(doc, mk, a)

ApplySettings(doc, mk, pk, rk, a) ==
    UpdateReasoning(UpdatePreview(UpdateModel(doc, mk, a), pk, a), rk, a)

\* "Write back to file": the text to write
SerializeDocument(doc, path) ==
    IF is_toml_file(path)
    THEN LET text == toml_to_string_pretty(json_to_toml(doc))
         IN  IF text.ok THEN text ELSE Err("Failed to serialize TOML")
    ELSE json_to_string_pretty(doc)

-----------------------------------------------------------------------------
(* The commands specification: two calls, each a get_agent_settings or a     *)
(* set_agent_settings, on one settings file; a set_agent_settings call loads *)
(* the file in one step and writes it in a later one                         *)

Calls == {"c1", "c2"}

ModelOf(c) == IF c = "c1" THEN "gpt-5" ELSE "o3"
EffortOf(c) == IF c = "c1" THEN "high" ELSE "low"

\* the dot-paths of the three fields: equal keys, a key that is a prefix of
\* another, and keys that are unrelated are all among the choices
ModelKeys == {<<"a">>, <<"a", ".", "0">>}
PreviewKeys == {<<"a", ".", "0">>, <<"a", ".", "a">>, <<"0">>}
ReasoningKeys == {<<"a">>, <<"0">>}
OptionOf(S) == {None} \cup {Some(x) : x \in S}

\* "c.json", "c.toml" and "toml", which does not end with ".toml"
SettingsPaths ==
    {<<"c", ".", "j", "s", "o", "n">>, <<"c", ".", "t", "o", "m", "l">>,
     <<"t", "o", "m", "l">>}

JsonDocs ==
    {Object(EmptyMap),
     Object(MapInsert(EmptyMap, "a", String("old"))),
     Object(MapInsert(EmptyMap, "a", Object(MapInsert(EmptyMap, "0", Bool(FALSE))))),
     Object(MapInsert(MapInsert(EmptyMap, "a", Null), "0", String("kept"))),
     Array(<<String("old")>>)}

TomlDocs ==
    {TomlTable(EmptyMap),
     TomlTable(MapInsert(EmptyMap, "a", TomlString("old"))),
     TomlTable(MapInsert(EmptyMap, "a",
                         TomlTable(MapInsert(EmptyMap, "0", TomlBoolean(FALSE))))),
     TomlTable(MapInsert(MapInsert(EmptyMap, "a", TomlFloat("nan")),
                         "0", TomlString("kept"))),
     TomlTable(MapInsert(MapInsert(EmptyMap, "a",
                                   TomlDatetime([date |-> "1979-05-27", time |-> "07:32:00Z"])),
                         "0", TomlInteger(1)))}

FilesOf(path) ==
    {Absent, Malformed} \cup
    (IF is_toml_file(path) THEN {TomlText(t) : t \in TomlDocs}
     ELSE {JsonText(v) : v \in JsonDocs})

SetArgs(c) ==
    {[op |-> "set", model |-> m, preview_enabled |-> p, reasoning_effort |-> r] :
        m \in OptionOf({ModelOf(c)}), p \in OptionOf({TRUE}),
        r \in OptionOf({EffortOf(c)})}
GetArgs == [op |-> "get"]

InitCommands ==
    /\ json = Null
    /\ key = <<>>
    /\ value = Null
    /\ out = Null
    /\ phase = "commands"
    /\ settings_path \in SettingsPaths
    /\ model_key \in ModelKeys
    /\ preview_key \in OptionOf(PreviewKeys)
    /\ reasoning_key \in OptionOf(ReasoningKeys)
    /\ file \in FilesOf(settings_path)
    /\ file0 = file
    /\ pc = [c \in Calls |-> "idle"]
    /\ args = [c \in Calls |-> GetArgs]
    /\ loaded = [c \in Calls |-> Absent]
    /\ local = [c \in Calls |-> Null]
    /\ ret = [c \in Calls |-> Ok("pending")]
    /\ hist = <<>>

\* get_agent_settings, whole
GetSettings(c) ==
    /\ pc[c] = "idle"
    /\ args' = [args EXCEPT ![c] = GetArgs]
    /\ loaded' = [loaded EXCEPT ![c] = file]
    /\ ret' = [ret EXCEPT ![c] =
                  get_agent_settings(file, settings_path, model_key, preview_key,
                                     reasoning_key)]
    /\ pc' = [pc EXCEPT ![c] = "done"]
    /\ hist' = Append(hist, <<c, "read">>)
    /\ UNCHANGED <<accVars, settings_path, model_key, preview_key, reasoning_key,
                   file, file0, local>>

\* set_agent_settings up to the updates of its own tree
Load(c) ==
    /\ pc[c] = "idle"
    /\ \E a \in SetArgs(c) :
          /\ args' = [args EXCEPT ![c] = a]
          /\ local' = [local EXCEPT ![c] =
                          ApplySettings(LoadDocument(file, settings_path), model_key,
                                        preview_key, reasoning_key, a)]
    /\ loaded' = [loaded EXCEPT ![c] = file]
    /\ pc' = [pc EXCEPT ![c] = "loaded"]
    /\ hist' = Append(hist, <<c, "load">>)
    /\ UNCHANGED <<accVars, settings_path, model_key, preview_key, reasoning_key,
                   file, file0, ret>>

\* a write that loads the file again and applies its updates to that
WriteMerging(c) ==
    /\ pc[c] = "loaded"
    /\ LET text == SerializeDocument(
                       ApplySettings(LoadDocument(file, settings_path), model_key,
                                     preview_key, reasoning_key, args[c]),
                       settings_path)
       IN  /\ file' = text.v
           /\ ret' = [ret EXCEPT ![c] = Ok("unit")]
    /\ pc' = [pc EXCEPT ![c] = "done"]
    /\ hist' = Append(hist, <<c, "write">>)
    /\ UNCHANGED <<accVars, settings_path, model_key, preview_key, reasoning_key,
                   file0, args, loaded, local>>

\* set_agent_settings from the serialisation on
Write(c) ==
    /\ pc[c] = "loaded"
    /\ LET text == SerializeDocument(local[c], settings_path)
       IN  IF text.ok
           THEN /\ file' = text.v
                /\ ret' = [ret EXCEPT ![c] = Ok("unit")]
                /\ hist' = Append(hist, <<c, "write">>)
           ELSE /\ file' = file
                /\ ret' = [ret EXCEPT ![c] = text]
                /\ hist' = hist
    /\ pc' = [pc EXCEPT ![c] = "done"]
    /\ UNCHANGED <<accVars, settings_path, model_key, preview_key, reasoning_key,
                   file0, args, loaded, local>>

NextCommands == \E c \in Calls : GetSettings(c) \/ Load(c) \/ Write(c)

SpecCommands == InitCommands /\ [][NextCommands]_vars

-----------------------------------------------------------------------------
(* Vocabulary of the properties *)

Prefix(segs, n) == SubSeq(segs, 1, n)

\* the node a segment sequence resolves to: the root for the empty sequence,
\* else the member named by the last segment of the Object its front resolves to
RECURSIVE NodeAt(_, _)
NodeAt(v, segs) ==
    IF Len(segs) = 0 THEN Some(v)
    ELSE LET parent == NodeAt(v, Prefix(segs, Len(segs) - 1))
             last == segs[Len(segs)]
         IN  IF parent.some /\ parent.v.t = "Object" /\ last \in DOMAIN parent.v.o
             THEN Some(parent.v.o[last])
             ELSE None

IsPrefixOf(a, b) == Len(a) <= Len(b) /\ Prefix(b, Len(a)) = a
Incomparable(a, b) == ~IsPrefixOf(a, b) /\ ~IsPrefixOf(b, a)

\* a proper prefix of the path of the last set_nested_value held a non-Object
CoercedOnTheWay ==
    \E n \in 0..(Len(split(key)) - 1) :
        LET before == NodeAt(json, Prefix(split(key), n))
        IN  before.some /\ before.v.t # "Object"

-----------------------------------------------------------------------------
(* C1: after set_nested_value(v, p, x), get_nested_value(v, p) returns       *)
(* Some(x), for every tree, path and value, also when p did not exist        *)

C1_WriteThenRead ==
    phase = "set" => get_nested_value(out, key) = Some(value)

\* a set on a path that did not exist, through a non-Object root
C1_Witness ==
    /\ phase = "set"
    /\ get_nested_value(json, key) = None
    /\ json.t # "Object"
    /\ Len(split(key)) >= 2
    /\ get_nested_value(out, key) = Some(value)

-----------------------------------------------------------------------------
(* C2: set_nested_value with the empty path string leaves the tree as it was *)

C2_EmptyPathNoOp ==
    (phase = "set" /\ key = <<>>) => out = json

\* what the code does with the empty path: it inserts the key ""
C2_EmptyPathInserts ==
    (phase = "set" /\ key = <<>>) =>
        /\ out.t = "Object"
        /\ "" \in DOMAIN out.o
        /\ out.o[""] = value

-----------------------------------------------------------------------------
(* C4: get_nested_value returns None when a segment is missing or when a     *)
(* proper prefix of the path resolves to a non-Object; an Array is never     *)
(* indexed, not even by the segment "0"                                      *)

C4_GetNone ==
    phase = "got" =>
        \A n \in 0..(Len(split(key)) - 1) :
            LET node == NodeAt(json, Prefix(split(key), n))
            IN  (\/ ~node.some
                 \/ node.v.t # "Object"
                 \/ split(key)[n + 1] \notin DOMAIN node.v.o) => out = None

\* the path "0" on a non-empty Array
C4_Witness ==
    /\ phase = "got"
    /\ key = <<"0">>
    /\ json.t = "Array"
    /\ Len(json.a) > 0
    /\ out = None

-----------------------------------------------------------------------------
(* C5: set_nested_value never fails, and afterwards the root and the node at *)
(* every proper prefix of the path are Objects; a non-Object that sat at the *)
(* root or at an intermediate segment is replaced by an Object holding only  *)
(* the key of the next segment                                               *)

C5_CoercesToObjects ==
    phase = "set" =>
        /\ out # Panic
        /\ \A n \in 0..(Len(split(key)) - 1) :
              LET before == NodeAt(json, Prefix(split(key), n))
                  after == NodeAt(out, Prefix(split(key), n))
              IN  /\ after.some
                  /\ after.v.t = "Object"
                  /\ (before.some /\ before.v.t # "Object") =>
                         DOMAIN after.v.o = {split(key)[n + 1]}

\* a scalar at an intermediate segment was replaced
C5_Witness ==
    /\ phase = "set"
    /\ Len(split(key)) = 2
    /\ json.t = "Object"
    /\ NodeAt(json, Prefix(split(key), 1)) = Some(String("s"))
    /\ NodeAt(out, Prefix(split(key), 1)) =
           Some(Object(MapInsert(EmptyMap, split(key)[2], value)))

-----------------------------------------------------------------------------
(* C10: set_nested_value(v, p, x) leaves get_nested_value(v, q) as it was    *)
(* for every q such that neither segment sequence is a prefix of the other   *)

C10_Frame ==
    phase = "set" =>
        \A q \in KeyStrings :
            Incomparable(split(key), split(q)) =>
                get_nested_value(out, q) = get_nested_value(json, q)

\* the set coerced a node on its way and an unrelated path kept its value
C10_Witness ==
    /\ phase = "set"
    /\ CoercedOnTheWay
    /\ \E q \in KeyStrings :
          /\ Incomparable(split(key), split(q))
          /\ get_nested_value(json, q).some
          /\ get_nested_value(out, q) = get_nested_value(json, q)

-----------------------------------------------------------------------------
(* C8: toml_to_json(json_to_toml(v)) is v with every Null replaced by        *)
(* String("") when v holds no number outside the signed 64-bit integers; no  *)
(* Null survives and no key or array element is dropped                      *)

RECURSIVE NullToEmpty(_), OnlyI64(_), HasNull(_), SameShape(_, _)
NullToEmpty(v) ==
    IF v.t = "Null" THEN String("")
    ELSE IF v.t = "Array" THEN Array([i \in 1..Len(v.a) |-> NullToEmpty(v.a[i])])
    ELSE IF v.t = "Object" THEN Object([j \in DOMAIN v.o |-> NullToEmpty(v.o[j])])
    ELSE v
OnlyI64(v) ==
    IF v.t = "Number"
    THEN \/ v.n.k = "NegInt" /\ v.n.i >= I64_MIN
         \/ v.n.k = "PosInt" /\ v.n.u <= I64_MAX
    ELSE IF v.t = "Array" THEN \A i \in 1..Len(v.a) : OnlyI64(v.a[i])
    ELSE IF v.t = "Object" THEN \A j \in DOMAIN v.o : OnlyI64(v.o[j])
    ELSE TRUE
HasNull(v) ==
    IF v.t = "Null" THEN TRUE
    ELSE IF v.t = "Array" THEN \E i \in 1..Len(v.a) : HasNull(v.a[i])
    ELSE IF v.t = "Object" THEN \E j \in DOMAIN v.o : HasNull(v.o[j])
    ELSE FALSE
SameShape(v, w) ==
    IF v.t = "Array"
    THEN w.t = "Array" /\ Len(w.a) = Len(v.a)
         /\ \A i \in 1..Len(v.a) : SameShape(v.a[i], w.a[i])
    ELSE IF v.t = "Object"
    THEN w.t = "Object" /\ DOMAIN w.o = DOMAIN v.o
         /\ \A j \in DOMAIN v.o : SameShape(v.o[j], w.o[j])
    ELSE w.t \notin {"Array", "Object"}

C8_NullDegrades ==
    phase = "bridged" =>
        /\ OnlyI64(json) => out = NullToEmpty(json)
        /\ ~HasNull(out)
        /\ SameShape(json, out)

\* a Null inside an Array inside an Object came back as the empty string
C8_Witness ==
    /\ phase = "bridged"
    /\ json = Object(MapInsert(EmptyMap, "a", Array(<<Null>>)))
    /\ out = Object(MapInsert(EmptyMap, "a", Array(<<String("")>>)))

-----------------------------------------------------------------------------
(* Vocabulary of the properties of the commands *)

Fields == {"model", "preview", "reasoning"}

\* the dot-path that governs a field, when the caller supplied one
KeyOf(f) ==
    IF f = "model" THEN Some(model_key)
    ELSE IF f = "preview" THEN preview_key
    ELSE reasoning_key

\* the value a set_agent_settings call supplies for a field, as a Value
GivenValue(a, f) ==
    IF f = "model" THEN (IF a.model.some THEN Some(String(a.model.v)) ELSE None)
    ELSE IF f = "preview"
    THEN (IF a.preview_enabled.some THEN Some(Bool(a.preview_enabled.v)) ELSE None)
    ELSE (IF a.reasoning_effort.some THEN Some(String(a.reasoning_effort.v)) ELSE None)

\* the fields a call applies: a value and a governing path are both there
Supplied(a) == {f \in Fields : a.op = "set" /\ KeyOf(f).some /\ GivenValue(a, f).some}

\* a field of a Settings Result, as a Value
ResultField(r, f) ==
    IF f = "model" THEN (IF r.model.some THEN Some(String(r.model.v)) ELSE None)
    ELSE IF f = "preview"
    THEN (IF r.preview_enabled.some THEN Some(Bool(r.preview_enabled.v)) ELSE None)
    ELSE (IF r.reasoning_effort.some THEN Some(String(r.reasoning_effort.v)) ELSE None)

\* the primitive type a field is read as
TypeOf(f) == IF f = "preview" THEN "Bool" ELSE "String"

\* no key of the fields F equals or is a prefix of the key of another
DisjointKeys(F) ==
    \A f \in F, g \in F :
        f # g => Incomparable(split(KeyOf(f).v), split(KeyOf(g).v))

\* the contents are a document of the format the path implies
WellFormed(content) ==
    content.kind = (IF is_toml_file(settings_path) THEN "toml" ELSE "json")

\* the Value tree of well-formed contents
ValueTree(content) ==
    IF content.kind = "toml" THEN toml_to_json(content.doc) ELSE content.doc

\* the (path, value) pairs of the leaves of a tree
RECURSIVE LeavesFrom(_, _)
LeavesFrom(v, at) ==
    IF v.t = "Object"
    THEN UNION {LeavesFrom(v.o[j], Append(at, j)) : j \in DOMAIN v.o}
    ELSE {<<at, v>>}

GivenLeaves(a) == {<<split(KeyOf(f).v), GivenValue(a, f).v>> : f \in Supplied(a)}

\* positions in the order of the loads, writes and reads
Pos(c, what) ==
    IF \E i \in 1..Len(hist) : hist[i] = <<c, what>>
    THEN CHOOSE i \in 1..Len(hist) : hist[i] = <<c, what>>
    ELSE 0
Writers == {c \in Calls : Pos(c, "write") > 0}
LastWriter == CHOOSE c \in Writers : \A d \in Writers : Pos(d, "write") <= Pos(c, "write")
Other(c) == CHOOSE d \in Calls : d # c

SetDone(c) == pc[c] = "done" /\ args[c].op = "set"
GetDone(c) == pc[c] = "done" /\ args[c].op = "get"

\* c wrote, then d read, and d is a get_agent_settings call
ReadAfterWrite(c, d) ==
    /\ SetDone(c) /\ ret[c] = Ok("unit")
    /\ GetDone(d)
    /\ Pos(d, "read") > Pos(c, "write")

-----------------------------------------------------------------------------
(* C3 as stated: after set_agent_settings returns Ok, a get_agent_settings   *)
(* with the same keys returns every supplied value, whatever the keys        *)

C3_AllFieldsApplied ==
    \A c \in Calls, d \in Calls :
        ReadAfterWrite(c, d) =>
            /\ ret[d].ok
            /\ \A f \in Supplied(args[c]) :
                  ResultField(ret[d].v, f) = GivenValue(args[c], f)

(* C3 as amended: the same, when no supplied key equals or is a prefix of    *)
(* another supplied key                                                      *)

C3_AllFieldsAppliedDisjoint ==
    \A c \in Calls, d \in Calls :
        (ReadAfterWrite(c, d) /\ DisjointKeys(Supplied(args[c]))) =>
            /\ ret[d].ok
            /\ \A f \in Supplied(args[c]) :
                  ResultField(ret[d].v, f) = GivenValue(args[c], f)

\* three fields written over a malformed file and read back
C3_Witness ==
    \E c \in Calls, d \in Calls :
        /\ ReadAfterWrite(c, d)
        /\ loaded[c] = Malformed
        /\ Supplied(args[c]) = Fields
        /\ DisjointKeys(Fields)
        /\ \A f \in Fields : ResultField(ret[d].v, f) = GivenValue(args[c], f)

-----------------------------------------------------------------------------
(* C6: a field of the read result is present exactly when its key was        *)
(* supplied and resolves to a node of the field's type; a missing node or a  *)
(* node of another type gives an absent field and Ok; a read of a file that  *)
(* does not exist gives Ok with the three fields absent                      *)

C6_ReadByPathAndType ==
    \A c \in Calls :
        GetDone(c) =>
            /\ loaded[c] = Absent => ret[c] = Ok(AgentSettings(None, None, None))
            /\ WellFormed(loaded[c]) =>
                  /\ ret[c].ok
                  /\ \A f \in Fields :
                        LET node == IF KeyOf(f).some
                                    THEN NodeAt(ValueTree(loaded[c]), split(KeyOf(f).v))
                                    ELSE None
                        IN  ResultField(ret[c].v, f) =
                                (IF node.some /\ node.v.t = TypeOf(f) THEN node ELSE None)

\* the model key resolves to an Object, the preview key to a Bool
C6_Witness ==
    \E c \in Calls :
        /\ GetDone(c)
        /\ WellFormed(loaded[c])
        /\ NodeAt(ValueTree(loaded[c]), split(model_key)).some
        /\ NodeAt(ValueTree(loaded[c]), split(model_key)).v.t = "Object"
        /\ ret[c].ok
        /\ ret[c].v.model = None
        /\ ret[c].v.preview_enabled = Some(FALSE)

-----------------------------------------------------------------------------
(* C7: on a malformed file get_agent_settings returns a parse error naming   *)
(* the format and leaves the file as it is; set_agent_settings returns Ok,   *)
(* writes a well-formed document and a read issued afterwards succeeds       *)

ParseError == IF is_toml_file(settings_path) THEN Err("Failed to parse TOML")
              ELSE Err("Failed to parse JSON")

C7_ReadFailsWriteRecovers ==
    \A c \in Calls :
        /\ (GetDone(c) /\ loaded[c] = Malformed) =>
              /\ ret[c] = ParseError
              /\ Writers = {} => file = Malformed
        /\ (args[c].op = "set" /\ pc[c] # "idle" /\ loaded[c] = Malformed) =>
              /\ LeavesFrom(local[c], <<>>) \subseteq GivenLeaves(args[c])
              /\ local[c].t = "Object"
        /\ (SetDone(c) /\ loaded[c] = Malformed) =>
              /\ ret[c] = Ok("unit")
              /\ WellFormed(file)
              /\ LastWriter = c => ValueTree(file) = local[c]
              /\ ReadAfterWrite(c, Other(c)) => ret[Other(c)].ok

(* C7 as stated: moreover the document written holds exactly the supplied    *)
(* fields                                                                    *)

C7_ExactlySupplied ==
    \A c \in Calls :
        (SetDone(c) /\ loaded[c] = Malformed /\ LastWriter = c) =>
            LeavesFrom(ValueTree(file), <<>>) = GivenLeaves(args[c])

(* C7 as amended: exactly the supplied fields when no supplied key equals or *)
(* is a prefix of another, and never anything but supplied fields            *)

C7_Amended ==
    /\ C7_ReadFailsWriteRecovers
    /\ \A c \in Calls :
          (SetDone(c) /\ loaded[c] = Malformed /\ LastWriter = c) =>
              /\ LeavesFrom(ValueTree(file), <<>>) \subseteq GivenLeaves(args[c])
              /\ DisjointKeys(Supplied(args[c])) =>
                    LeavesFrom(ValueTree(file), <<>>) = GivenLeaves(args[c])

\* a set over a malformed file, then a read that succeeds
C7_Witness ==
    \E c \in Calls :
        /\ SetDone(c) /\ loaded[c] = Malformed
        /\ Cardinality(Supplied(args[c])) >= 2
        /\ DisjointKeys(Supplied(args[c]))
        /\ ReadAfterWrite(c, Other(c))
        /\ ret[Other(c)].ok
        /\ LeavesFrom(ValueTree(file), <<>>) = GivenLeaves(args[c])

-----------------------------------------------------------------------------
(* C9: when two set_agent_settings calls have both returned, the file holds  *)
(* the document of the call that wrote last, built from the contents that    *)
(* call loaded; a field the other call wrote to a different key is kept      *)
(* exactly when the last writer loaded the file after the other's write      *)

C9_LastWriterWins ==
    (\A c \in Calls : SetDone(c)) =>
        LET l == LastWriter
            o == Other(LastWriter)
        IN  /\ file = SerializeDocument(
                          ApplySettings(LoadDocument(loaded[l], settings_path), model_key,
                                        preview_key, reasoning_key, args[l]),
                          settings_path).v
            /\ Pos(l, "load") < Pos(o, "write") => loaded[l] = file0
            /\ \A f \in Supplied(args[o]) :
                  DisjointKeys({f} \cup Supplied(args[l])) /\ f \notin Supplied(args[l])
                  /\ DisjointKeys(Supplied(args[o])) =>
                      LET back == get_agent_settings(file, settings_path, model_key,
                                                     preview_key, reasoning_key)
                      IN  /\ back.ok
                          /\ (ResultField(back.v, f) = GivenValue(args[o], f))
                                 <=> (Pos(l, "load") > Pos(o, "write"))

\* the last writer loaded before the other call wrote: the other's field is lost
C9_Witness ==
    /\ \A c \in Calls : SetDone(c)
    /\ Pos(LastWriter, "load") < Pos(Other(LastWriter), "write")
    /\ Supplied(args[Other(LastWriter)]) = {"model"}
    /\ Supplied(args[LastWriter]) = {"reasoning"}
    /\ DisjointKeys({"model", "reasoning"})
    /\ get_agent_settings(file, settings_path, model_key, preview_key,
                          reasoning_key).v.model
           # args[Other(LastWriter)].model

====
